---- MODULE Spec2Model ----
(***************************************************************************)
(* The browser client of audiotorium: the node page that mirrors a         *)
(* node's queue from the event stream, the AudioQueue component (remove    *)
(* with a lock, drag-reorder with a move command) and the command timeout  *)
(* guard sendCommandWithTimeout.                                           *)
(*                                                                         *)
(* The client is single threaded: every handler below runs to completion   *)
(* (including the microtasks it schedules) before the next event is        *)
(* taken, so one handler is one action.                                    *)
(***************************************************************************)
EXTENDS Integers, Sequences, FiniteSets, TLC

VARIABLES
    queue,            \* +page.svelte: let queue
    health,           \* +page.svelte: let health
    audioStateInfo,   \* +page.svelte: let audioStateInfo (<<>> is undefined)
    socket,           \* +page.svelte: const socket, "open" or "closed"
    activeAudio,      \* +page.svelte: the prop activeAudio of ActiveAudio
    nodeInfo,         \* node list page: let nodeInfo
    location,         \* window.location.href
    dndQueue,         \* AudioQueue: let dndQueue, a sequence of [data, id]
    deleteAllowed,    \* AudioQueue: let deleteAllowed
    setOldPosLocked,  \* AudioQueue: let setOldPosLocked
    oldPos,           \* AudioQueue: let oldPos (Undefined or an index)
    newPos,           \* AudioQueue: let newPos (Undefined or an index)
    cmds,             \* the live guarded fetch calls, oldest first
    holdingBar,       \* ActiveAudio: let holdingBar
    setHoldingBarWithDelay, \* ActiveAudio: the timer handle: "none" is
                      \* undefined, else the timer it names is "pending" or "fired"
    localProgress,    \* ActiveAudio: let localProgress, in 1/ProgressScale
    holdTimers,       \* timers () => holdingBar = true that are set
    releaseTimers,    \* timers () => holdingBar = false that are set
    pointer,          \* history: the last offset e.clientX - rect.left read
    pressed,          \* history: the pointer went down on the bar and is not up yet
    sources,          \* session page: let sources
    activeSource,     \* Sources: let activeSource (NoSource is undefined)
    sourceQueue,      \* Sources: let queue
    handlers,         \* session page: let handlers, the keys in order
    downloadingAudio, \* YouTubeSearch: let downloadingAudio
    queueProp,        \* Queue: export let queue
    paused,           \* Queue: let paused
    started,          \* history: the last download event the socket delivered
                      \* was STARTED_DOWNLOADING_AUDIO
    wire,             \* history: the text handleResponse was given last
    received,         \* history: the message that text was written from
    calls,            \* history: what handleResponse did with it
    view,             \* history: "sent" after a remove was emitted, "answered"
                      \* when its response arrived, "current" after a QUEUE message
    gesture,          \* history: <<>> between drags, else <<first, last>> frame index
    last              \* history: the handler that ran last, its input and output

vars == <<queue, health, audioStateInfo, socket, activeAudio, nodeInfo, location, dndQueue, deleteAllowed,
          setOldPosLocked, oldPos, newPos, cmds, holdingBar,
          setHoldingBarWithDelay, localProgress, holdTimers, releaseTimers,
          pointer, pressed, sources, activeSource, sourceQueue, handlers,
          downloadingAudio, queueProp, paused, started, wire,
          received, calls, view, gesture, last>>

pageVars == <<queue, health, audioStateInfo, socket, activeAudio>>
brainVars == <<nodeInfo, location>>
dragVars == <<setOldPosLocked, oldPos, newPos, gesture>>
scrubVars == <<holdingBar, setHoldingBarWithDelay, localProgress, holdTimers,
               releaseTimers, pointer, pressed>>
listVars == <<dndQueue, deleteAllowed, dragVars, view>>
searchVars == <<downloadingAudio, queueProp, paused, started>>
sessionVars == <<sources, activeSource, sourceQueue, handlers, wire, received,
                 calls, searchVars>>

---------------------------------------------------------------------------
(* Bounds and constants *)

MaxQueue == 3
MaxInflight == 2
ProgressScale == 2
RemoveTimeoutMs == 3000
MoveTimeoutMs == 500
ScrubTimeoutMs == 500
MaxTimers == 2
Undefined == -1

ItemNames == <<"A", "B", "C", "D", "E">>
Items == {ItemNames[i] : i \in 1..MaxQueue}

\* The queues a stream message may carry: duplicate-free orders of the items.
Queues ==
    UNION {{q \in [1..n -> Items] : \A i, j \in 1..n : q[i] = q[j] => i = j}
           : n \in 0..MaxQueue}

\* Contiguous runs of the full list A, B, C, ...: what is left of it after
\* items were removed at its ends.
RunQueues ==
    {[k \in 1..(j - i + 1) |-> ItemNames[i + k - 1]] : i, j \in 1..MaxQueue}

Healths == {"good", "poor"}

AsiSamples ==
    { [currentHeadIndex |-> 0, playbackState |-> "playing", audioProgress |-> 0],
      [currentHeadIndex |-> 0, playbackState |-> "paused",
       audioProgress |-> ProgressScale],
      [currentHeadIndex |-> MaxQueue - 1, playbackState |-> "playing",
       audioProgress |-> ProgressScale] }

NullOr(S) == {<<>>} \cup {<<x>> : x \in S}

---------------------------------------------------------------------------
(* Stream messages *)

NoMessage ==
    [kind |-> "none", keys |-> {}, QUEUE |-> <<>>, HEALTH |-> <<>>,
     AUDIO_STATE_INFO |-> <<>>]

MalformedMessage == [NoMessage EXCEPT !.kind = "malformed"]

\* {"SESSION_CONNECTED_RESPONSE": {QUEUE, HEALTH, AUDIO_STATE_INFO}}
ConnectedMessages ==
    {[kind |-> "connected", keys |-> {}, QUEUE |-> q, HEALTH |-> <<h>>,
      AUDIO_STATE_INFO |-> <<a>>]
     : q \in NullOr(Queues), h \in Healths, a \in AsiSamples}

\* {"QUEUE": ...}
QueueMessages ==
    {[kind |-> "update", keys |-> {"QUEUE"}, QUEUE |-> q, HEALTH |-> <<>>,
      AUDIO_STATE_INFO |-> <<>>] : q \in NullOr(Queues)}

\* A sample of the stream for the specifications of the AudioQueue
\* component: snapshots and queue updates that carry a run of the list.
RunQueueMessages ==
    {m \in QueueMessages \cup ConnectedMessages :
        /\ m.QUEUE \in NullOr(RunQueues)
        /\ m.kind = "connected" =>
              /\ m.HEALTH = <<"poor">>
              /\ m.AUDIO_STATE_INFO[1].playbackState = "paused"}

UpdateMessages ==
    QueueMessages
    \cup {[kind |-> "update", keys |-> {"AUDIO_STATE_INFO"}, QUEUE |-> <<>>,
           HEALTH |-> <<>>, AUDIO_STATE_INFO |-> <<a>>] : a \in AsiSamples}
    \cup {[kind |-> "update", keys |-> {"HEALTH"}, QUEUE |-> <<>>,
           HEALTH |-> <<h>>, AUDIO_STATE_INFO |-> <<>>] : h \in Healths}
    \cup {[kind |-> "update", keys |-> {"QUEUE", "AUDIO_STATE_INFO"},
           QUEUE |-> q, HEALTH |-> <<>>, AUDIO_STATE_INFO |-> <<a>>]
          : q \in NullOr(Queues), a \in AsiSamples}

Messages == ConnectedMessages \cup UpdateMessages \cup {MalformedMessage}

\* x ?? []
OrEmpty(x) == IF x = <<>> THEN <<>> ELSE x[1]

\* $: dndQueue = queue.map((item, index) => ({ data: item, id: index }))
ToDnd_OneBased(q) == [i \in 1..Len(q) |-> [data |-> q[i], id |-> i]]

ToDnd(q) == [i \in 1..Len(q) |-> [data |-> q[i], id |-> i - 1]]

\* The value of queue after the listener handled m.
QueueAfter_Reset(m, q) ==
    IF m.kind = "connected" \/ "QUEUE" \in m.keys THEN OrEmpty(m.QUEUE) ELSE <<>>

QueueAfter_Merge(m, q) ==
    IF m.kind = "connected" \/ "QUEUE" \in m.keys
    THEN q \o SelectSeq(OrEmpty(m.QUEUE), LAMBDA x : \A i \in 1..Len(q) : q[i] # x)
    ELSE q

QueueAfter(m, q) ==
    LET q1 == IF m.kind = "connected" THEN OrEmpty(m.QUEUE) ELSE q
    IN  IF m.kind = "update" /\ "QUEUE" \in m.keys THEN OrEmpty(m.QUEUE) ELSE q1

QueueAssigned(m) ==
    m.kind = "connected" \/ (m.kind = "update" /\ "QUEUE" \in m.keys)

AudioStateInfoAfter_Invalidate(m, a) ==
    IF m.kind = "update" /\ "AUDIO_STATE_INFO" \in m.keys
    THEN m.AUDIO_STATE_INFO
    ELSE IF m.kind = "update" /\ "QUEUE" \in m.keys THEN <<>> ELSE a

AudioStateInfoAfter(m, a) ==
    IF m.kind = "update" /\ "AUDIO_STATE_INFO" \in m.keys
    THEN m.AUDIO_STATE_INFO
    ELSE a

AudioStateInfoAssigned(m) == m.kind = "update" /\ "AUDIO_STATE_INFO" \in m.keys

\* activeAudio={audioStateInfo
\*     ? queue[audioStateInfo.playbackInfo.currentHeadIndex] : undefined}
\* (<<>> is undefined)
ActiveAudioOf_Clamped(q, a) ==
    IF a = <<>> \/ q = <<>>
    THEN <<>>
    ELSE IF a[1].currentHeadIndex + 1 \in DOMAIN q
         THEN <<q[a[1].currentHeadIndex + 1]>>
         ELSE <<q[Len(q)]>>

ActiveAudioOf(q, a) ==
    IF a = <<>>
    THEN <<>>
    ELSE IF a[1].currentHeadIndex + 1 \in DOMAIN q
         THEN <<q[a[1].currentHeadIndex + 1]>>
         ELSE <<>>

\* playbackInfo?.audioProgress ?? 0
ServerProgress(a) == IF a = <<>> THEN 0 ELSE a[1].audioProgress

\* $: if (!holdingBar && !setHoldingBarWithDelay) localProgress = ...
LocalProgressAfter_Always(holding, handle, local, a) == ServerProgress(a)

LocalProgressAfter(holding, handle, local, a) ==
    IF ~holding /\ handle = "none" THEN ServerProgress(a) ELSE local

\* What the handler that ran last was given and did: the stream message it
\* decoded, the commands it emitted, and the branch it took ("run" when
\* there is only one).
Handled(msg, sent, branch) ==
    [msg |-> msg, sent |-> sent, branch |-> branch]

\* socket.addEventListener('message', ...)
OnMessage(m) ==
    /\ socket = "open"
    /\ queue' = QueueAfter(m, queue)
    /\ audioStateInfo' = AudioStateInfoAfter(m, audioStateInfo)
    /\ activeAudio' = IF QueueAssigned(m) \/ AudioStateInfoAssigned(m)
                      THEN ActiveAudioOf(queue', audioStateInfo')
                      ELSE activeAudio
    /\ dndQueue' = IF QueueAssigned(m) THEN ToDnd(queue') ELSE dndQueue
    /\ localProgress' = LocalProgressAfter(holdingBar, setHoldingBarWithDelay,
                                           localProgress, audioStateInfo')
    /\ view' = IF QueueAssigned(m) THEN "current" ELSE view
    /\ last' = Handled(m, <<>>, "run")
    /\ UNCHANGED <<health, socket, brainVars, sessionVars, deleteAllowed, cmds, dragVars, holdingBar,
                   setHoldingBarWithDelay, holdTimers, releaseTimers, pointer,
                   pressed>>

---------------------------------------------------------------------------
(* sendCommandWithTimeout *)

TimeoutOf(kind) ==
    CASE kind = "remove" -> RemoveTimeoutMs
      [] kind = "move" -> MoveTimeoutMs
      [] kind = "progress" -> ScrubTimeoutMs

\* A call that has just started: the timer is set and the fetch is sent.
NewGuard(kind) ==
    [kind |-> kind, timeoutMs |-> TimeoutOf(kind), fetch |-> "inflight",
     timer |-> FALSE, promise |-> "pending"]

\* res(await fetch(...)): a settled promise ignores it.
AfterFetchOk_Always(c) == [c EXCEPT !.fetch = "ok", !.promise = "resolved"]

AfterFetchOk(c) ==
    [c EXCEPT !.fetch = "ok",
              !.promise = IF @ = "pending" THEN "resolved" ELSE @]

\* fetch rejects: the async executor throws, nothing settles the promise.
AfterFetchFail_Rejects(c) ==
    [c EXCEPT !.fetch = "failed",
              !.promise = IF @ = "pending" THEN "failed" ELSE @]

AfterFetchFail(c) == [c EXCEPT !.fetch = "failed"]

\* setTimeout(() => rej(timeoutIdentifier), timeoutMs)
AfterTimer_NoReject(c) == [c EXCEPT !.timer = TRUE]

AfterTimer_Always(c) == [c EXCEPT !.timer = TRUE, !.promise = "timedout"]

AfterTimer(c) ==
    [c EXCEPT !.timer = TRUE,
              !.promise = IF @ = "pending" THEN "timedout" ELSE @]

\* The await of the caller ends in this step.
Resumed(c, d) == d.promise # c.promise

\* catch (e) { if (e === timeoutIdentifier) onTimeout() }
TimedOut_Any(c, d) == Resumed(c, d)

TimedOut(c, d) == Resumed(c, d) /\ d.promise = "timedout"

\* The branch a step of a call took: the catch block ran onTimeout
\* ("timeout"), or the promise was settled before and ignores the event
\* (named by the event: "late" for a fetch result, "expired" for the timer).
\* The scrub has no catch block: its await throws ("thrown").
Outcome(c, d, ignored) ==
    IF c.kind = "progress" /\ Resumed(c, d) /\ d.promise = "timedout" THEN "thrown"
    ELSE IF TimedOut(c, d) THEN "timeout"
    ELSE IF c.promise # "pending" /\ ~Resumed(c, d) THEN ignored
    ELSE "run"

\* Nothing can happen to the call any more.
Finished(c) == c.timer /\ c.fetch # "inflight"

RemoveAt(s, i) == SubSeq(s, 1, i - 1) \o SubSeq(s, i + 1, Len(s))

\* The call is kept until its timer and its fetch are both done; nothing
\* starts it again.
Settled_Retry(s, i, d) ==
    IF d.promise = "timedout" /\ d.fetch = "inflight"
    THEN [s EXCEPT ![i] = NewGuard(d.kind)]
    ELSE IF Finished(d) THEN RemoveAt(s, i) ELSE [s EXCEPT ![i] = d]

Settled(s, i, d) == IF Finished(d) THEN RemoveAt(s, i) ELSE [s EXCEPT ![i] = d]

\* The lock after a step of a call: onRemove continues after its await
\* (deleteAllowed = true), and onTimeout releases it as well.
LockAfter_AnyKind(c, d, lock) == IF Resumed(c, d) THEN TRUE ELSE lock

LockAfter(c, d, lock) ==
    IF c.kind = "remove" /\ Resumed(c, d) THEN TRUE ELSE lock

\* onBarDragEnd continues after its await only when the promise resolved:
\* setTimeout(() => { holdingBar = false }, 100)
ReleaseTimersAfter(c, d, n) ==
    IF c.kind = "progress" /\ Resumed(c, d) /\ d.promise = "resolved"
    THEN n + 1
    ELSE n

FetchResolve(i) ==
    /\ i \in DOMAIN cmds
    /\ cmds[i].fetch = "inflight"
    /\ LET d == AfterFetchOk(cmds[i])
       IN  /\ cmds' = Settled(cmds, i, d)
           /\ deleteAllowed' = LockAfter(cmds[i], d, deleteAllowed)
           /\ releaseTimers' = ReleaseTimersAfter(cmds[i], d, releaseTimers)
           /\ releaseTimers' <= MaxTimers
           /\ view' = IF cmds[i].kind = "remove" /\ Resumed(cmds[i], d) /\ view = "sent"
                      THEN "answered"
                      ELSE view
           /\ last' = Handled(NoMessage, <<>>, Outcome(cmds[i], d, "late"))
    /\ UNCHANGED <<pageVars, brainVars, sessionVars, dndQueue, dragVars, holdingBar,
                   setHoldingBarWithDelay, localProgress, holdTimers, pointer,
                   pressed>>

FetchReject(i) ==
    /\ i \in DOMAIN cmds
    /\ cmds[i].fetch = "inflight"
    /\ LET d == AfterFetchFail(cmds[i])
       IN  /\ cmds' = Settled(cmds, i, d)
           /\ deleteAllowed' = LockAfter(cmds[i], d, deleteAllowed)
           /\ releaseTimers' = ReleaseTimersAfter(cmds[i], d, releaseTimers)
           /\ releaseTimers' <= MaxTimers
           /\ last' = Handled(NoMessage, <<>>, Outcome(cmds[i], d, "late"))
    /\ UNCHANGED <<pageVars, brainVars, sessionVars, dndQueue, dragVars, view, holdingBar,
                   setHoldingBarWithDelay, localProgress, holdTimers, pointer,
                   pressed>>

\* Timers fire in the order of their deadlines: an older call with a
\* deadline that is not longer fires first.
TimerDue(i) ==
    /\ i \in DOMAIN cmds
    /\ ~cmds[i].timer
    /\ \A j \in 1..(i - 1) :
          cmds[j].timer \/ cmds[j].timeoutMs > cmds[i].timeoutMs

TimerFire(i) ==
    /\ TimerDue(i)
    /\ LET d == AfterTimer(cmds[i])
       IN  /\ cmds' = Settled(cmds, i, d)
           /\ deleteAllowed' = LockAfter(cmds[i], d, deleteAllowed)
           /\ releaseTimers' = ReleaseTimersAfter(cmds[i], d, releaseTimers)
           /\ releaseTimers' <= MaxTimers
           /\ last' = Handled(NoMessage, <<>>, Outcome(cmds[i], d, "expired"))
    /\ UNCHANGED <<pageVars, brainVars, sessionVars, dndQueue, dragVars, view, holdingBar,
                   setHoldingBarWithDelay, localProgress, holdTimers, pointer,
                   pressed>>

---------------------------------------------------------------------------
(* AudioQueue: remove *)

RemoveCmd(index) == [tag |-> "REMOVE_QUEUE_ITEM", index |-> index]
MoveCmd(o, n) == [tag |-> "MOVE_QUEUE_ITEM", oldPos |-> o, newPos |-> n]

\* if (!deleteAllowed) return;
RemoveAllowed_Always(lock) == TRUE

RemoveAllowed(lock) == lock

\* on:click={() => onRemove(item.id)}
OnRemove(index) ==
    /\ \E k \in DOMAIN dndQueue : dndQueue[k].id = index
    /\ IF ~RemoveAllowed(deleteAllowed)
       THEN /\ last' = Handled(NoMessage, <<>>, "locked")
            /\ UNCHANGED <<deleteAllowed, cmds, view>>
       ELSE /\ Len(cmds) < MaxInflight
            /\ deleteAllowed' = FALSE
            /\ cmds' = Append(cmds, NewGuard("remove"))
            /\ view' = "sent"
            /\ last' = Handled(NoMessage, <<RemoveCmd(index)>>, "run")
    /\ UNCHANGED <<pageVars, brainVars, sessionVars, dndQueue, dragVars, scrubVars>>

PlaySelectedCmd(index) == [tag |-> "PLAY_SELECTED", index |-> index]

\* on:dblclick={() => onElementClick(item.id)}: a plain fetch, nothing
\* follows its await
OnElementClick(index) ==
    /\ \E k \in DOMAIN dndQueue : dndQueue[k].id = index
    /\ last' = Handled(NoMessage, <<PlaySelectedCmd(index)>>, "dblclick")
    /\ UNCHANGED <<pageVars, brainVars, sessionVars, listVars, cmds, scrubVars>>

---------------------------------------------------------------------------
(* AudioQueue: drag-reorder *)

Indexes == {Undefined} \cup (0..(Len(dndQueue) - 1))

\* if (!setOldPosLocked) { setOldPosLocked = true; oldPos = index; }
OldPosAfter_Unlocked(locked, old, index) == index

OldPosAfter(locked, old, index) == IF ~locked THEN index ELSE old

TransformDraggedElement(index) ==
    /\ Len(dndQueue) > 0
    /\ index \in Indexes
    /\ oldPos' = OldPosAfter(setOldPosLocked, oldPos, index)
    /\ setOldPosLocked' = TRUE
    /\ newPos' = index
    /\ gesture' = IF gesture = <<>> THEN <<index, index>> ELSE <<gesture[1], index>>
    /\ last' = Handled(NoMessage, <<>>, "run")
    /\ UNCHANGED <<pageVars, brainVars, sessionVars, dndQueue, deleteAllowed, cmds, view, scrubVars>>

\* The list with the item at position a (1-based) moved to position b.
MoveItem(s, a, b) ==
    LET rest == RemoveAt(s, a)
    IN  SubSeq(rest, 1, b - 1) \o <<s[a]>> \o SubSeq(rest, b, Len(rest))

\* on:consider: dndQueue = e.detail.items
HandleDndConsider(a, b) ==
    /\ a \in DOMAIN dndQueue
    /\ b \in DOMAIN dndQueue
    /\ dndQueue' = MoveItem(dndQueue, a, b)
    /\ last' = Handled(NoMessage, <<>>, "run")
    /\ UNCHANGED <<pageVars, brainVars, sessionVars, deleteAllowed, cmds, dragVars, view, scrubVars>>

\* if (oldPos !== undefined && newPos !== undefined)
MoveWanted(o, n) == o # Undefined /\ n # Undefined

\* on:finalize. e.detail.items is the list of the last consider. The
\* library also ends keyboard drags and aborted drags with finalize, and
\* for those transformDraggedElement was never called.
HandleDndFinalize ==
    /\ gesture # <<>> \/ Len(dndQueue) > 0
    /\ setOldPosLocked' = FALSE
    /\ dndQueue' = dndQueue
    /\ gesture' = <<>>
    /\ IF MoveWanted(oldPos, newPos)
       THEN /\ Len(cmds) < MaxInflight
            /\ cmds' = Append(cmds, NewGuard("move"))
            /\ last' = Handled(NoMessage, <<MoveCmd(oldPos, newPos)>>, "run")
       ELSE /\ cmds' = cmds
            /\ last' = Handled(NoMessage, <<>>, "run")
    /\ UNCHANGED <<pageVars, brainVars, sessionVars, deleteAllowed, oldPos, newPos, view, scrubVars>>

---------------------------------------------------------------------------
(* ActiveAudio: the progress bar *)

\* The bar is BarWidth pixels wide; one pixel is one step of the scale.
BarWidth == ProgressScale

\* e.clientX - rect.left, for a pointer anywhere in the window
PointerXs == (0 - 1)..(BarWidth + 1)

\* the same offset for a pointer on the bar
BarXs == 0..BarWidth

Min(a, b) == IF a < b THEN a ELSE b
Max(a, b) == IF a > b THEN a ELSE b

\* Math.max(Math.min(x / rect.width, 1), 0)
Progress_Unclamped(x) == (x * ProgressScale) \div BarWidth

Progress(x) == Max(Min((x * ProgressScale) \div BarWidth, ProgressScale), 0)

ProgressCmd(progress) == [tag |-> "SET_AUDIO_PROGRESS", progress |-> progress]

\* on:mousedown of the bar
OnBarDragStart(x) ==
    /\ x \in BarXs
    /\ holdTimers < MaxTimers
    /\ localProgress' = Progress(x)
    /\ pointer' = x
    /\ pressed' = TRUE
    /\ setHoldingBarWithDelay' = "pending"
    /\ holdTimers' = holdTimers + 1
    /\ last' = Handled(NoMessage, <<>>, "run")
    /\ UNCHANGED <<pageVars, brainVars, sessionVars, listVars, cmds, holdingBar, releaseTimers>>

\* setTimeout(() => { holdingBar = true }, 100): the oldest timer fires;
\* the handle names the newest.
HoldTimerFire ==
    /\ holdTimers > 0
    /\ holdingBar' = TRUE
    /\ holdTimers' = holdTimers - 1
    /\ setHoldingBarWithDelay' =
          IF setHoldingBarWithDelay = "pending" /\ holdTimers = 1
          THEN "fired"
          ELSE setHoldingBarWithDelay
    /\ last' = Handled(NoMessage, <<>>, "run")
    /\ UNCHANGED <<pageVars, brainVars, sessionVars, listVars, cmds, localProgress, releaseTimers,
                   pointer, pressed>>

\* if (!holdingBar && barElement !== target && !barElement.contains(target))
ReleaseIgnored(holding, inside) == ~holding /\ ~inside

\* on:mouseup of the window; inside: the target is the bar or in it.
OnBarDragEnd(inside) ==
    IF ReleaseIgnored(holdingBar, inside)
    THEN /\ last' = Handled(NoMessage, <<>>, "outside")
         /\ pressed' = FALSE
         /\ UNCHANGED <<pageVars, brainVars, sessionVars, listVars, cmds, holdingBar,
                        setHoldingBarWithDelay, localProgress, holdTimers,
                        releaseTimers, pointer>>
    ELSE /\ Len(cmds) < MaxInflight
         /\ holdTimers' = IF setHoldingBarWithDelay = "pending"
                           THEN holdTimers - 1
                           ELSE holdTimers
         /\ setHoldingBarWithDelay' = "none"
         /\ cmds' = Append(cmds, NewGuard("progress"))
         /\ last' = Handled(NoMessage, <<ProgressCmd(localProgress)>>, "run")
         /\ localProgress' = LocalProgressAfter(holdingBar, "none", localProgress,
                                                audioStateInfo)
         /\ pressed' = FALSE
         /\ UNCHANGED <<pageVars, brainVars, sessionVars, listVars, holdingBar, releaseTimers, pointer>>

\* on:mousemove of the window
OnBarDrag(x) ==
    /\ x \in PointerXs
    /\ IF ~holdingBar
       THEN /\ last' = Handled(NoMessage, <<>>, "idle")
            /\ UNCHANGED <<localProgress, pointer>>
       ELSE /\ localProgress' = Progress(x)
            /\ pointer' = x
            /\ last' = Handled(NoMessage, <<>>, "run")
    /\ UNCHANGED <<pageVars, brainVars, sessionVars, listVars, cmds, holdingBar,
                   setHoldingBarWithDelay, holdTimers, releaseTimers, pressed>>

\* setTimeout(() => { holdingBar = false }, 100)
ReleaseTimerFire ==
    /\ releaseTimers > 0
    /\ releaseTimers' = releaseTimers - 1
    /\ holdingBar' = FALSE
    /\ localProgress' = LocalProgressAfter(FALSE, setHoldingBarWithDelay,
                                           localProgress, audioStateInfo)
    /\ last' = Handled(NoMessage, <<>>, "run")
    /\ UNCHANGED <<pageVars, brainVars, sessionVars, listVars, cmds, setHoldingBarWithDelay,
                   holdTimers, pointer, pressed>>

\* QueueItemPlaying: let progress = e.offsetX / progressBarWidth. The click
\* lands on the bar (or on its filled part), so the offset is on the bar.
ClickProgress(offsetX) == (offsetX * ProgressScale) \div BarWidth

\* QueueItemPlaying: on:click of the bar, sent over the socket unguarded
OnProgressBarClick(offsetX) ==
    /\ offsetX \in BarXs
    /\ last' = Handled(NoMessage, <<ProgressCmd(ClickProgress(offsetX))>>, "click")
    /\ UNCHANGED <<pageVars, brainVars, sessionVars, listVars, cmds, scrubVars>>

\* playbackInfo?.playbackState === 'paused' ? '"UN_PAUSE_QUEUE"' : '"PAUSE_QUEUE"'
PlayPauseAction(a) ==
    IF a # <<>> /\ a[1].playbackState = "paused"
    THEN "UN_PAUSE_QUEUE"
    ELSE "PAUSE_QUEUE"

PlayPauseCmd(action) == [tag |-> action]

\* on:click={onPlayPause}: a plain fetch, nothing follows its await
OnPlayPause ==
    /\ last' = Handled(NoMessage, <<PlayPauseCmd(PlayPauseAction(audioStateInfo))>>,
                       "playpause")
    /\ UNCHANGED <<pageVars, brainVars, sessionVars, listVars, cmds, scrubVars>>

\* The progress the bar shows: the width of the filled part.
Displayed ==
    IF holdingBar THEN localProgress ELSE ServerProgress(audioStateInfo)

---------------------------------------------------------------------------
(* The message codec: msgString and handleResponse *)

\* A text is a sequence of tokens: punctuation, a name (the characters
\* between two quotes) or a whole JSON value (a payload, kept unparsed).
Tok(c, str, v) == [c |-> c, str |-> str, v |-> v]
LBrace == Tok("{", "", <<>>)
RBrace == Tok("}", "", <<>>)
Colon == Tok(":", "", <<>>)
Comma == Tok(",", "", <<>>)
Quote == Tok("quote", "", <<>>)
Space == Tok("space", "", <<>>)
Junk == Tok("junk", "", <<>>)
Name(str) == Tok("name", str, <<>>)
Lit(v) == Tok("value", "", <<v>>)

\* The payloads of the session protocol.
Payload(kind, list, name) == [kind |-> kind, list |-> list, name |-> name]
NullPayload == Payload("null", <<>>, "")
InfoPayload == Payload("info", <<>>, "")
\* SendClientQueueInfoResponse with processorInfo.playbackState 'paused'
PausedInfoPayload == Payload("info", <<>>, "paused")
SourcesPayload(list) == Payload("sources", list, "")
QueuePayload(list) == Payload("queue", list, "")
NamePayload(name) == Payload("sourceName", <<>>, name)
\* FinishedDownloadingResponse with an error (and the queue it may carry)
ErrorPayload(list) == Payload("error", list, "")

SourceNames == {"office", "living_room"}
SourceLists == {<<>>, <<"office">>, <<"living_room">>, <<"office", "living_room">>}
SongLists == {<<>>, <<"song">>}

\* A command tuple [tag] or [tag, params]
Cmd(tag, params) == [tag |-> tag, params |-> params]

\* JSON.stringify(msg[1])
Stringify(v) == <<Lit(v)>>

\* msg.length === 1 ? `"${msg}"` : `{ "${msg[0]}": ${JSON.stringify(msg[1])}}`
MsgString_Object(msg) ==
    <<LBrace, Space, Quote, Name(msg.tag), Quote, Colon, Space>>
    \o (IF Len(msg.params) = 0 THEN <<Junk>> ELSE Stringify(msg.params[1]))
    \o <<RBrace>>

MsgString(msg) ==
    IF Len(msg.params) = 0
    THEN <<Quote, Name(msg.tag), Quote>>
    ELSE <<LBrace, Space, Quote, Name(msg.tag), Quote, Colon, Space>>
         \o Stringify(msg.params[1]) \o <<RBrace>>

Member(k, v) == [k |-> k, v |-> v]

Parsed(ok, form, str, members) ==
    [ok |-> ok, form |-> form, str |-> str, members |-> members]

SyntaxError == Parsed(FALSE, "none", "", <<>>)

RECURSIVE ParseMembers(_)
\* "k": v, "k": v, ... up to the closing brace
ParseMembers(ts) ==
    IF Len(ts) < 5
    THEN SyntaxError
    ELSE IF /\ ts[1] = Quote
            /\ ts[2].c = "name"
            /\ ts[3] = Quote
            /\ ts[4] = Colon
            /\ ts[5].c = "value"
         THEN LET m == Member(ts[2].str, ts[5].v[1])
              IN  IF Len(ts) = 5
                  THEN Parsed(TRUE, "object", "", <<m>>)
                  ELSE IF ts[6] = Comma
                       THEN LET r == ParseMembers(SubSeq(ts, 7, Len(ts)))
                            IN  IF r.ok
                                THEN Parsed(TRUE, "object", "", <<m>> \o r.members)
                                ELSE SyntaxError
                       ELSE SyntaxError
         ELSE SyntaxError

\* JSON.parse: a string, an object of members, or a SyntaxError
JsonParse(text) ==
    LET ts == SelectSeq(text, LAMBDA t : t # Space)
    IN  IF Len(ts) = 3 /\ ts[1] = Quote /\ ts[2].c = "name" /\ ts[3] = Quote
        THEN Parsed(TRUE, "string", ts[2].str, <<>>)
        ELSE IF Len(ts) >= 2 /\ ts[1] = LBrace /\ ts[Len(ts)] = RBrace
             THEN IF Len(ts) = 2
                  THEN Parsed(TRUE, "object", "", <<>>)
                  ELSE ParseMembers(SubSeq(ts, 2, Len(ts) - 1))
             ELSE SyntaxError

MaxOf(S) == CHOOSE n \in S : \A k \in S : k <= n

\* data[key]: <<>> is undefined; of members with one key the last counts
Get(data, key) ==
    LET idx == {i \in DOMAIN data.members : data.members[i].k = key}
    IN  IF data.form = "object" /\ idx # {}
        THEN <<data.members[MaxOf(idx)].v>>
        ELSE <<>>

\* let handlers = [...] of the page, then the pushes of Sources.onMount
PageHandlers == <<"SESSION_CONNECTED_RESPONSE", "ADD_SOURCE_RESPONSE">>

SourcesHandlers ==
    <<"SET_ACTIVE_SOURCE_RESPONSE", "ADD_QUEUE_ITEM_RESPONSE",
      "REMOVE_QUEUE_ITEM_RESPONSE", "READ_QUEUE_ITEMS_RESPONSE",
      "MOVE_QUEUE_ITEM_RESPONSE">>

\* if (data[key] !== undefined || response === `"${key}"`)
Matches_First(response, data, hs, i) ==
    /\ Get(data, hs[i]) # <<>> \/ response = <<Quote, Name(hs[i]), Quote>>
    /\ \A j \in 1..(i - 1) : hs[j] # hs[i]

\* the table as it was when the socket was opened
Matches_Initial(response, data, hs, i) ==
    /\ Get(data, hs[i]) # <<>> \/ response = <<Quote, Name(hs[i]), Quote>>
    /\ i <= Len(PageHandlers) + Len(SourcesHandlers)

Matches(response, data, hs, i) ==
    Get(data, hs[i]) # <<>> \/ response = <<Quote, Name(hs[i]), Quote>>

\* handleResponse: the calls handle(data[key]) it makes, in order, or the
\* exception of JSON.parse
HandleResponse(response, hs) ==
    LET data == JsonParse(response)
        idx == SelectSeq([i \in 1..Len(hs) |-> i],
                         LAMBDA i : Matches(response, data, hs, i))
    IN  IF ~data.ok
        THEN [thrown |-> TRUE, list |-> <<>>]
        ELSE [thrown |-> FALSE,
              list |-> [j \in 1..Len(idx) |->
                          [handler |-> idx[j], key |-> hs[idx[j]],
                           data |-> Get(data, hs[idx[j]])]]]

---------------------------------------------------------------------------
(* The session page and Sources *)

NoSource == ""
MaxMounts == 2

\* the pushes of Queue.onMount; Queue is mounted while sources.length > 0
QueueHandlers == <<"SEND_CLIENT_QUEUE_INFO_RESPONSE", "FINISHED_DOWNLOADING_AUDIO">>

SourcesKeys == {"SESSION_CONNECTED_RESPONSE", "ADD_SOURCE_RESPONSE"}

QueueKeys ==
    {"ADD_QUEUE_ITEM_RESPONSE", "REMOVE_QUEUE_ITEM_RESPONSE",
     "READ_QUEUE_ITEMS_RESPONSE", "MOVE_QUEUE_ITEM_RESPONSE"}

\* What the server writes on the socket: an object of members, a bare
\* tag, or a frame that is cut short.
WsMessage(form, tag, members) == [form |-> form, tag |-> tag, members |-> members]

NoWsMessage == WsMessage("none", "", <<>>)

SourcesMembers ==
    {Member(k, SourcesPayload(l)) : k \in SourcesKeys, l \in SourceLists}

SingleMembers ==
    SourcesMembers
    \cup {Member("SET_ACTIVE_SOURCE_RESPONSE", NamePayload(n)) : n \in SourceNames}
    \cup {Member("READ_QUEUE_ITEMS_RESPONSE", QueuePayload(l)) : l \in SongLists}
    \cup {Member("SEND_CLIENT_QUEUE_INFO_RESPONSE", InfoPayload),
          Member("PONG", NullPayload)}

ObjectMessages ==
    {WsMessage("object", "", <<m>>) : m \in SingleMembers}
    \cup {WsMessage("object", "",
                    <<Member("SET_ACTIVE_SOURCE_RESPONSE", NamePayload(n)), m>>)
          : n \in SourceNames, m \in SourcesMembers}
    \cup {WsMessage("object", "",
                    <<Member("PONG", NullPayload),
                      Member("READ_QUEUE_ITEMS_RESPONSE", QueuePayload(l)),
                      Member("SEND_CLIENT_QUEUE_INFO_RESPONSE", InfoPayload)>>)
          : l \in SongLists}
    \cup {WsMessage("object", "",
                    <<m, Member("SEND_CLIENT_QUEUE_INFO_RESPONSE", InfoPayload)>>)
          : m \in SourcesMembers}
    \cup {WsMessage("object", "", <<>>)}

BareMessages == {WsMessage("bare", "PONG", <<>>)}

MalformedMessages ==
    {WsMessage("malformed", "", <<m>>) : m \in SourcesMembers}
    \cup {WsMessage("malformed", "", <<>>)}

WsMessages == ObjectMessages \cup BareMessages \cup MalformedMessages

RECURSIVE MembersText(_)
MembersText(ms) ==
    IF ms = <<>>
    THEN <<>>
    ELSE <<Quote, Name(ms[1].k), Quote, Colon, Lit(ms[1].v)>>
         \o (IF Len(ms) = 1 THEN <<>> ELSE <<Comma>> \o MembersText(Tail(ms)))

\* The text of a message; a malformed one is the object text without its
\* closing brace, or no JSON at all.
ServerText(m) ==
    CASE m.form = "object" -> <<LBrace>> \o MembersText(m.members) \o <<RBrace>>
      [] m.form = "bare" -> <<Quote, Name(m.tag), Quote>>
      [] m.form = "malformed" ->
            IF m.members = <<>>
            THEN <<Junk>>
            ELSE <<LBrace>> \o MembersText(m.members)
      [] OTHER -> <<>>

\* The payload of the last call of a handler under one of the keys.
LastData(list, keys) ==
    LET idx == {j \in DOMAIN list : list[j].key \in keys}
    IN  IF idx = {} THEN <<>> ELSE list[MaxOf(idx)].data

SetActiveSourceCmd(sourceName) ==
    Cmd("SET_ACTIVE_SOURCE", <<NamePayload(sourceName)>>)

\* function readCurrentQueue(activeSource), run when activeSource changed
ReadCurrentQueue(active) ==
    IF active = NoSource THEN <<>> ELSE <<Cmd("READ_QUEUE_ITEMS", <<>>)>>

\* function defaultToOnlySource(sources), run when sources was assigned
DefaultToOnlySource_Any(srcs) ==
    IF Len(srcs) >= 1 THEN <<SetActiveSourceCmd(srcs[1])>> ELSE <<>>

DefaultToOnlySource(srcs) ==
    IF Len(srcs) = 1 THEN <<SetActiveSourceCmd(srcs[1])>> ELSE <<>>

\* (data) => { activeSource = data.sourceName }, when the handler is
\* called; name is <<>> when it is not
ActiveSourceAfter_Reset(name, active) ==
    IF name # <<>> THEN name[1].name ELSE NoSource

ActiveSourceAfter(name, active) ==
    IF name # <<>> THEN name[1].name ELSE active

\* the pushes of YouTubeSearch.onMount
SearchHandlers == <<"STARTED_DOWNLOADING_AUDIO", "FINISHED_DOWNLOADING_AUDIO">>

\* The calls of the handlers YouTubeSearch pushed.
SearchCalls(list, hs) ==
    {j \in DOMAIN list :
        \/ list[j].key = SearchHandlers[1]
        \/ /\ list[j].key = SearchHandlers[2]
           /\ list[j].handler > 1
           /\ hs[list[j].handler - 1] = SearchHandlers[1]}

\* The download events of a text, by the test of handleResponse: the
\* download runs after STARTED_DOWNLOADING_AUDIO until FINISHED_DOWNLOADING_AUDIO.
StartedAfter(response, s) ==
    LET data == JsonParse(response)
        has(key) == Get(data, key) # <<>> \/ response = <<Quote, Name(key), Quote>>
    IN  IF ~data.ok THEN s
        ELSE IF has(SearchHandlers[2]) THEN FALSE
        ELSE IF has(SearchHandlers[1]) THEN TRUE
        ELSE s

\* (_) => { downloadingAudio = true } and (_) => { downloadingAudio = false }
DownloadingAfter_NeverBlocks(list, hs, downloading) == FALSE

DownloadingAfter(list, hs, downloading) ==
    IF SearchCalls(list, hs) = {}
    THEN downloading
    ELSE list[MaxOf(SearchCalls(list, hs))].key = SearchHandlers[1]

\* Queue: if (data.error) { console.error(data.error) }
\*        else if (data.queue) { queue = data.queue }
FinishedQueue_IgnoresError(data, q) ==
    IF data.kind \in {"queue", "error"} THEN data.list ELSE q

FinishedQueue(data, q) ==
    IF data.kind = "error" THEN q
    ELSE IF data.kind = "queue" THEN data.list
    ELSE q

\* paused = data.processorInfo.playbackState === 'paused'
PausedAfter(data) == data.name = "paused"

Mounts(hs) == (Len(hs) - Len(PageHandlers) - Len(SourcesHandlers)) \div 2

\* websocket.onmessage = (event) => { handleResponse(event.data, handlers) }
\* with the handlers of the page and of Sources, then the reactive
\* statements of Sources and the mount of Queue.
OnWsMessage(m) ==
    LET text == ServerText(m)
        r == HandleResponse(text, handlers)
        srcs == LastData(r.list, SourcesKeys)
        name == LastData(r.list, {"SET_ACTIVE_SOURCE_RESPONSE"})
        songs == LastData(r.list, QueueKeys)
        fin == LastData(r.list, {"FINISHED_DOWNLOADING_AUDIO"})
        info == LastData(r.list, {"SEND_CLIENT_QUEUE_INFO_RESPONSE"})
    IN  /\ wire' = text
        /\ received' = m
        /\ calls' = r
        /\ sources' = IF srcs # <<>> THEN srcs[1].list ELSE sources
        /\ activeSource' = ActiveSourceAfter(name, activeSource)
        /\ sourceQueue' = IF songs # <<>> THEN songs[1].list ELSE sourceQueue
        /\ handlers' = IF sources = <<>> /\ sources' # <<>>
                       THEN handlers \o QueueHandlers
                       ELSE handlers
        /\ Mounts(handlers') <= MaxMounts
        /\ downloadingAudio' = DownloadingAfter(r.list, handlers, downloadingAudio)
        /\ started' = StartedAfter(text, started)
        /\ paused' = IF sources = <<>> /\ sources' # <<>>
                      THEN FALSE
                      ELSE IF sources # <<>> /\ info # <<>>
                           THEN PausedAfter(info[1])
                           ELSE paused
        /\ queueProp' =
              IF songs # <<>> \/ (sources = <<>> /\ sources' # <<>>)
              THEN sourceQueue'
              ELSE IF sources # <<>> /\ fin # <<>>
                   THEN FinishedQueue(fin[1], queueProp)
                   ELSE queueProp
        /\ last' = Handled(NoMessage,
                           (IF activeSource' # activeSource
                            THEN ReadCurrentQueue(activeSource')
                            ELSE <<>>)
                           \o (IF srcs # <<>>
                               THEN DefaultToOnlySource(sources')
                               ELSE <<>>),
                           IF r.thrown THEN "uncaught" ELSE "run")
        /\ UNCHANGED <<pageVars, brainVars, listVars, cmds, scrubVars>>

\* on:click={() => setActiceSource(source)}
OnSourceClick(i) ==
    /\ i \in DOMAIN sources
    /\ last' = Handled(NoMessage, <<SetActiveSourceCmd(sources[i])>>, "click")
    /\ UNCHANGED <<pageVars, brainVars, sessionVars, listVars, cmds, scrubVars>>

\* YouTubeSearch.onMount, given the handler table of the page. The
\* components mount before the page opens the socket.
MountSearch ==
    /\ received = NoWsMessage
    /\ \A i \in DOMAIN handlers : handlers[i] # SearchHandlers[1]
    /\ handlers' = handlers \o SearchHandlers
    /\ last' = Handled(NoMessage, <<>>, "mount")
    /\ UNCHANGED <<pageVars, brainVars, listVars, cmds, scrubVars, sources,
                   activeSource, sourceQueue, wire, received, calls, searchVars>>

\* YouTubeSearch: on:click of a result, then onSearchResultClick of the page
OnSearchResultClick(title) ==
    /\ last' = IF downloadingAudio
               THEN Handled(NoMessage, <<>>, "blocked")
               ELSE IF activeSource = NoSource
                    THEN Handled(NoMessage, <<>>, "nosource")
                    ELSE Handled(NoMessage,
                                 <<Cmd("ADD_QUEUE_ITEM", <<NamePayload(title)>>)>>,
                                 "search")
    /\ UNCHANGED <<pageVars, brainVars, sessionVars, listVars, cmds, scrubVars>>

\* Queue: const remove = (index) => sendWsMsg([REMOVE_QUEUE_ITEM, { index }])
QueueRemove(index) ==
    /\ sources # <<>>
    /\ index + 1 \in DOMAIN queueProp
    /\ last' = Handled(NoMessage,
                       <<Cmd("REMOVE_QUEUE_ITEM", <<QueuePayload(<<index>>)>>)>>,
                       "remove")
    /\ UNCHANGED <<pageVars, brainVars, sessionVars, listVars, cmds, scrubVars>>

\* Queue: on:click={togglePause}
TogglePause ==
    /\ sources # <<>>
    /\ last' = Handled(NoMessage,
                       <<Cmd(IF paused THEN "UN_PAUSE_QUEUE" ELSE "PAUSE_QUEUE", <<>>)>>,
                       "togglepause")
    /\ UNCHANGED <<pageVars, brainVars, sessionVars, listVars, cmds, scrubVars>>

\* The codec applied to a command tuple: msgString writes it, and
\* handleResponse reads the text back with the handlers registered.
RoundTrip(msg) ==
    /\ wire' = MsgString(msg)
    /\ calls' = HandleResponse(wire', handlers)
    /\ received' = NoWsMessage
    /\ last' = Handled(NoMessage, <<msg>>, "loopback")
    /\ UNCHANGED <<pageVars, brainVars, listVars, cmds, scrubVars, sources, activeSource,
                   sourceQueue, handlers, searchVars>>

---------------------------------------------------------------------------
(* The node list page, and the socket of the node page *)

MaxNodes == 3

\* The nodes in the order of their human readable names.
NodeNames == <<"kitchen", "living_room", "office">>

Rank(name) == CHOOSE i \in DOMAIN NodeNames : NodeNames[i] = name

\* AudioNodeHealth: the string 'good' or an object with one key
NodeHealth(str, keys) == [str |-> str, keys |-> keys]

NodeHealths ==
    {NodeHealth("good", {}), NodeHealth("", {"mild"}), NodeHealth("", {"poor"})}

NodeInfos ==
    {[source_name |-> NodeNames[i], human_readable_name |-> NodeNames[i],
      health |-> h] : i \in DOMAIN NodeNames, h \in NodeHealths}

\* The lists the server sends: every node at most once, in any order.
NodeLists ==
    UNION {{l \in [1..n -> NodeInfos] :
               \A i, j \in 1..n : l[i].source_name = l[j].source_name => i = j}
           : n \in 0..MaxNodes}

RECURSIVE Insert(_, _)
Insert(x, sorted) ==
    IF sorted = <<>>
    THEN <<x>>
    ELSE IF Rank(x.human_readable_name) <= Rank(sorted[1].human_readable_name)
         THEN <<x>> \o sorted
         ELSE <<sorted[1]>> \o Insert(x, Tail(sorted))

RECURSIVE ToSorted(_)
\* .toSorted((a, b) => a.human_readable_name.localeCompare(b.human_readable_name))
ToSorted(l) == IF l = <<>> THEN <<>> ELSE Insert(l[1], ToSorted(Tail(l)))

\* function getSimpleHealth(health)
GetSimpleHealth_Good(h) ==
    IF h.str = "good" THEN "good" ELSE "mild"

GetSimpleHealth(h) ==
    IF h.str = "good" THEN "good"
    ELSE IF "mild" \in h.keys THEN "mild"
    ELSE "poor"

Route(source_name) == <<"queue", source_name>>

\* The list page, the empty path.
Home == <<>>

\* socket.addEventListener('message', ...) of the node list page;
\* node_info is <<>> for null, else <<list>>
OnNodeInfo(node_info) ==
    /\ location = Home
    /\ nodeInfo' = ToSorted(OrEmpty(node_info))
    /\ last' = Handled(NoMessage, <<>>, "run")
    /\ UNCHANGED <<pageVars, location, sessionVars, listVars, cmds, scrubVars>>

\* on:click of a node of the list
OnNodeClick(i) ==
    /\ location = Home
    /\ i \in DOMAIN nodeInfo
    /\ IF GetSimpleHealth(nodeInfo[i].health) # "poor"
       THEN /\ location' = Route(nodeInfo[i].source_name)
            /\ last' = Handled(NoMessage, <<>>, "navigate")
       ELSE /\ location' = location
            /\ last' = Handled(NoMessage, <<>>, "refused")
    /\ UNCHANGED <<pageVars, nodeInfo, sessionVars, listVars, cmds, scrubVars>>

\* on:click={() => (window.location.href = '/')}: the list page is loaded
\* anew.
OnHomeClick ==
    /\ location # Home
    /\ location' = Home
    /\ nodeInfo' = <<>>
    /\ last' = Handled(NoMessage, <<>>, "home")
    /\ UNCHANGED <<pageVars, sessionVars, listVars, cmds, scrubVars>>

\* The socket of the node page is lost. The page listens to 'message'
\* only: no handler runs.
SocketClose ==
    /\ socket = "open"
    /\ socket' = "closed"
    /\ last' = Handled(NoMessage, <<>>, "closed")
    /\ UNCHANGED <<queue, health, audioStateInfo, activeAudio, brainVars,
                   sessionVars, listVars, cmds, scrubVars>>

---------------------------------------------------------------------------
(* Specifications *)

Init ==
    /\ queue = <<>>
    /\ health = "good"
    /\ audioStateInfo = <<>>
    /\ socket = "open"
    /\ activeAudio = <<>>
    /\ nodeInfo = <<>>
    /\ location = <<>>
    /\ dndQueue = <<>>
    /\ deleteAllowed = TRUE
    /\ setOldPosLocked = FALSE
    /\ oldPos = Undefined
    /\ newPos = Undefined
    /\ cmds = <<>>
    /\ holdingBar = FALSE
    /\ setHoldingBarWithDelay = "none"
    /\ localProgress = 0
    /\ holdTimers = 0
    /\ releaseTimers = 0
    /\ pointer = 0
    /\ pressed = FALSE
    /\ sources = <<>>
    /\ activeSource = NoSource
    /\ sourceQueue = <<>>
    /\ handlers = PageHandlers \o SourcesHandlers
    /\ downloadingAudio = FALSE
    /\ queueProp = <<>>
    /\ paused = FALSE
    /\ started = FALSE
    /\ wire = <<>>
    /\ received = NoWsMessage
    /\ calls = [thrown |-> FALSE, list |-> <<>>]
    /\ view = "current"
    /\ gesture = <<>>
    /\ last = Handled(NoMessage, <<>>, "run")

Slots == 1..MaxInflight
Positions == 0..(MaxQueue - 1)

Next ==
    \/ \E m \in Messages : OnMessage(m)
    \/ \E index \in Positions : OnRemove(index)
    \/ \E index \in Positions : OnElementClick(index)
    \/ \E index \in {Undefined} \cup Positions : TransformDraggedElement(index)
    \/ \E a, b \in 1..MaxQueue : HandleDndConsider(a, b)
    \/ HandleDndFinalize
    \/ \E x \in BarXs : OnBarDragStart(x)
    \/ HoldTimerFire
    \/ \E x \in PointerXs : OnBarDrag(x)
    \/ \E inside \in BOOLEAN : OnBarDragEnd(inside)
    \/ ReleaseTimerFire
    \/ \E offsetX \in BarXs : OnProgressBarClick(offsetX)
    \/ OnPlayPause
    \/ \E i \in Slots : FetchResolve(i)
    \/ \E i \in Slots : FetchReject(i)
    \/ \E i \in Slots : TimerFire(i)

Spec == Init /\ [][Next]_vars

\* The node page alone: every stream message, no user input.
NextStream ==
    \/ \E m \in Messages : OnMessage(m)
    \/ SocketClose

SpecStream == Init /\ [][NextStream]_vars

\* The user removes items; the queue is replaced by stream updates.
NextRemove ==
    \/ \E m \in RunQueueMessages : OnMessage(m)
    \/ \E index \in Positions : OnRemove(index)
    \/ \E i \in Slots : FetchResolve(i)
    \/ \E i \in Slots : FetchReject(i)
    \/ \E i \in Slots : TimerFire(i)

SpecRemove == Init /\ [][NextRemove]_vars

\* A timer that was set fires.
FairRemove == SpecRemove /\ \A i \in Slots : WF_vars(TimerFire(i))

\* The user drags items; the queue is replaced by stream updates.
NextReorder ==
    \/ \E m \in RunQueueMessages : OnMessage(m)
    \/ \E index \in {Undefined} \cup Positions : TransformDraggedElement(index)
    \/ \E a, b \in 1..MaxQueue : HandleDndConsider(a, b)
    \/ HandleDndFinalize
    \/ \E i \in Slots : FetchResolve(i)
    \/ \E i \in Slots : FetchReject(i)
    \/ \E i \in Slots : TimerFire(i)

SpecReorder == Init /\ [][NextReorder]_vars

\* The node list page: the server sends node lists, the user clicks.
NextBrain ==
    \/ \E l \in NullOr(NodeLists) : OnNodeInfo(l)
    \/ \E i \in 1..MaxNodes : OnNodeClick(i)
    \/ OnHomeClick

SpecBrain == Init /\ [][NextBrain]_vars

\* The session page: the server writes on the socket, the user clicks a
\* source.
NextSession ==
    \/ \E m \in WsMessages : OnWsMessage(m)
    \/ \E i \in DOMAIN sources : OnSourceClick(i)

SpecSession == Init /\ [][NextSession]_vars

\* The session page with the search: downloads start and finish, with a
\* queue or with an error.
SearchMessages ==
    {WsMessage("object", "", <<m>>) :
        m \in SingleMembers
             \cup {Member(SearchHandlers[1], NullPayload)}
             \cup {Member(SearchHandlers[2], QueuePayload(l)) : l \in SongLists}
             \cup {Member(SearchHandlers[2], ErrorPayload(l)) : l \in SongLists}}
    \cup {WsMessage("bare", SearchHandlers[1], <<>>)}

NextSearch ==
    \/ MountSearch
    \/ \E m \in SearchMessages : OnWsMessage(m)
    \/ \E title \in {"song"} : OnSearchResultClick(title)
    \/ \E index \in Positions : QueueRemove(index)

SpecSearch == Init /\ [][NextSearch]_vars

CodecTags ==
    {"PLAY_NEXT", "SET_ACTIVE_SOURCE", "SET_ACTIVE_SOURCE_RESPONSE",
     "FINISHED_DOWNLOADING_AUDIO", "SESSION_CONNECTED_RESPONSE"}

CodecParams ==
    {NullPayload, InfoPayload}
    \cup {NamePayload(n) : n \in SourceNames}
    \cup {SourcesPayload(l) : l \in SourceLists}

CommandTuples ==
    {Cmd(tag, <<>>) : tag \in CodecTags}
    \cup {Cmd(tag, <<v>>) : tag \in CodecTags, v \in CodecParams}

\* The codec over every command tuple, with the handler tables the session
\* page builds.
NextCodec ==
    \/ \E m \in ObjectMessages : OnWsMessage(m)
    \/ \E msg \in CommandTuples : RoundTrip(msg)

SpecCodec == Init /\ [][NextCodec]_vars

\* The user scrubs; the server reports the progress.
ProgressMessages == {m \in UpdateMessages : m.keys = {"AUDIO_STATE_INFO"}}

NextScrub ==
    \/ \E m \in ProgressMessages : OnMessage(m)
    \/ \E x \in BarXs : OnBarDragStart(x)
    \/ HoldTimerFire
    \/ \E x \in PointerXs : OnBarDrag(x)
    \/ \E inside \in BOOLEAN : OnBarDragEnd(inside)
    \/ ReleaseTimerFire
    \/ \E offsetX \in BarXs : OnProgressBarClick(offsetX)
    \/ OnPlayPause
    \/ \E i \in Slots : FetchResolve(i)
    \/ \E i \in Slots : FetchReject(i)
    \/ \E i \in Slots : TimerFire(i)

SpecScrub == Init /\ [][NextScrub]_vars

\* Play and pause on both pages: the node page with its stream, the
\* session page with the queue info the socket delivers.
PauseMessages ==
    {WsMessage("object", "", <<m>>) :
        m \in SourcesMembers
             \cup {Member("SEND_CLIENT_QUEUE_INFO_RESPONSE", InfoPayload),
                   Member("SEND_CLIENT_QUEUE_INFO_RESPONSE", PausedInfoPayload)}}

\* the snapshot of a node with an empty queue, then the playback updates
PauseStream ==
    ProgressMessages
    \cup {m \in ConnectedMessages : m.QUEUE = <<>> /\ m.HEALTH = <<"good">>}

NextPause ==
    \/ \E m \in PauseStream : OnMessage(m)
    \/ OnPlayPause
    \/ \E m \in PauseMessages : OnWsMessage(m)
    \/ TogglePause

SpecPause == Init /\ [][NextPause]_vars

\* Every timer that was set fires.
FairScrub ==
    /\ SpecScrub
    /\ WF_vars(HoldTimerFire)
    /\ WF_vars(ReleaseTimerFire)
    /\ \A i \in Slots : WF_vars(TimerFire(i))

\* The AudioQueue component whole: removes and drags together.
NextQueue ==
    \/ \E m \in RunQueueMessages : OnMessage(m)
    \/ \E index \in Positions : OnRemove(index)
    \/ \E index \in Positions : OnElementClick(index)
    \/ \E index \in {Undefined} \cup Positions : TransformDraggedElement(index)
    \/ \E a, b \in 1..MaxQueue : HandleDndConsider(a, b)
    \/ HandleDndFinalize
    \/ \E i \in Slots : FetchResolve(i)
    \/ \E i \in Slots : FetchReject(i)
    \/ \E i \in Slots : TimerFire(i)

SpecQueue == Init /\ [][NextQueue]_vars

\* The user has not touched the progress bar / has not dragged an item.
NeverScrubbed ==
    ~holdingBar /\ setHoldingBarWithDelay = "none" /\ holdTimers = 0
    /\ releaseTimers = 0 /\ \A i \in DOMAIN cmds : cmds[i].kind # "progress"

NeverDragged == gesture = <<>> /\ oldPos = Undefined /\ newPos = Undefined

\* Every command of the node page, one guarded call at a time: the user
\* removes, plays and pauses, and either moves items (a drag of frames,
\* then finalize) or scrubs (down, hold, up), while the stream reports the
\* queue and the progress.
\* The stream of such a session: the queue as it is left when items are
\* removed at its front, and the playback at the head of the queue.
CommandsStream ==
    {m \in RunQueueMessages \cap QueueMessages :
        \/ OrEmpty(m.QUEUE) = <<>>
        \/ m.QUEUE[1][Len(m.QUEUE[1])] = ItemNames[MaxQueue]}
    \cup {m \in ProgressMessages : m.AUDIO_STATE_INFO[1].currentHeadIndex = 0}

NextCommands ==
    \/ \E m \in CommandsStream : OnMessage(m)
    \/ cmds = <<>> /\ \E index \in Positions : OnRemove(index)
    \/ \E index \in Positions : OnElementClick(index)
    \/ NeverScrubbed /\ \E index \in Positions : TransformDraggedElement(index)
    \/ cmds = <<>> /\ HandleDndFinalize
    \/ NeverDragged /\ \E x \in BarXs : OnBarDragStart(x)
    \/ HoldTimerFire
    \/ cmds = <<>> /\ \E inside \in BOOLEAN : OnBarDragEnd(inside)
    \/ ReleaseTimerFire
    \/ OnPlayPause
    \/ \E i \in Slots : FetchResolve(i)
    \/ \E i \in Slots : FetchReject(i)
    \/ \E i \in Slots : TimerFire(i)

SpecCommands == Init /\ [][NextCommands]_vars

---------------------------------------------------------------------------
(* Claims *)

clientVars ==
    <<pageVars, brainVars, dndQueue, deleteAllowed, dragVars, scrubVars,
      sessionVars>>

PendingRemoves ==
    {i \in DOMAIN cmds : cmds[i].kind = "remove" /\ cmds[i].promise = "pending"}

PendingMoves ==
    {i \in DOMAIN cmds : cmds[i].kind = "move" /\ cmds[i].promise = "pending"}

EmitsRemove ==
    \E k \in DOMAIN last.sent : last.sent[k].tag = "REMOVE_QUEUE_ITEM"

EmitsMove ==
    \E k \in DOMAIN last.sent : last.sent[k].tag = "MOVE_QUEUE_ITEM"

\* C1: while a remove command is pending, every call of onRemove is a
\* no-op (no REMOVE_QUEUE_ITEM is emitted, no state changes), and at most
\* one remove is pending at any time.
C1_PendingRemoveLocks ==
    /\ [](Cardinality(PendingRemoves) <= 1)
    /\ [][PendingRemoves # {} =>
            /\ ~EmitsRemove'
            /\ \A index \in Positions :
                  OnRemove(index) =>
                      /\ UNCHANGED <<clientVars, cmds>>
                      /\ last'.branch = "locked"]_vars

\* A click on the remove button was swallowed while the first remove still
\* waits for its response.
C1_Witness ==
    /\ last.branch = "locked"
    /\ \E i \in PendingRemoves : cmds[i].fetch = "inflight"

\* C2: after a remove was issued the lock is released again, at the latest
\* when the timer of the command that holds it fires, also when the fetch
\* never settles.
C2_LockReleased ==
    /\ (~deleteAllowed) ~> deleteAllowed
    /\ [][\A i \in Slots :
            (i \in PendingRemoves /\ TimerFire(i)) => deleteAllowed']_vars

\* The timer released the lock while the fetch has still not settled.
C2_Witness ==
    /\ last.branch = "timeout"
    /\ deleteAllowed
    /\ \E i \in DOMAIN cmds :
          /\ cmds[i].kind = "remove"
          /\ cmds[i].promise = "timedout"
          /\ cmds[i].fetch = "inflight"

\* C3: a network result that arrives after its command timed out is
\* ignored: no callback runs and no client state changes; the lock a later
\* remove holds stays held.
C3_LateResponseIgnored ==
    [][\A i \in Slots :
          (/\ i \in DOMAIN cmds
           /\ cmds[i].promise = "timedout"
           /\ FetchResolve(i) \/ FetchReject(i))
          => /\ UNCHANGED clientVars
             /\ cmds' = RemoveAt(cmds, i)
             /\ last' = Handled(NoMessage, <<>>, "late")]_vars

\* The late response of a first remove arrived while a second remove holds
\* the lock.
C3_Witness ==
    /\ last.branch = "late"
    /\ ~deleteAllowed
    /\ PendingRemoves # {}

\* C4: a drag gesture of one or more frames that ends at another position
\* than it started emits exactly one MOVE_QUEUE_ITEM, at finalize, with
\* oldPos the index of the first frame and newPos the index at finalize.
C4_OneMovePerGesture ==
    [][/\ (/\ gesture # <<>>
           /\ gesture' = <<>>
           /\ gesture[1] # Undefined
           /\ gesture[2] # Undefined
           /\ gesture[1] # gesture[2])
          => last'.sent = <<MoveCmd(gesture[1], gesture[2])>>
       /\ gesture' # <<>> => ~EmitsMove']_vars

\* The drag 2, 1, 0 was finalized.
C4_Witness ==
    /\ gesture = <<>>
    /\ last.sent = <<MoveCmd(2, 0)>>
    /\ Len(dndQueue) = 3
    /\ dndQueue[1].id = 2

\* C5: a finalize with oldPos = newPos emits no move command.
C5_NoMoveOnSameSlot ==
    [][(HandleDndFinalize /\ oldPos = newPos) => ~EmitsMove']_vars

\* C6: after every finalize the reorder state is reset (the lock released,
\* oldPos and newPos undefined), so a finalize without a frame of its own
\* gesture emits no move command.
C6_ResetAtFinalize ==
    /\ [](gesture = <<>> =>
            ~setOldPosLocked /\ oldPos = Undefined /\ newPos = Undefined)
    /\ [][(gesture = <<>> /\ HandleDndFinalize) => ~EmitsMove']_vars

\* C7: while a MOVE_QUEUE_ITEM command is pending no second one is emitted.
C7_MovesNeverOverlap ==
    [][PendingMoves # {} => ~EmitsMove']_vars

\* C8: after a stream message that carries QUEUE (snapshot or update) the
\* queue is exactly the payload, the empty sequence for null.
C8_SnapshotOverwrites ==
    QueueAssigned(last.msg) => queue = OrEmpty(last.msg.QUEUE)

\* The update [B, C] replaced the queue in the middle of a drag, with a
\* move command in flight.
C8_Witness ==
    /\ last.msg.kind = "update"
    /\ last.msg.QUEUE = << <<"B", "C">> >>
    /\ queue = <<"B", "C">>
    /\ gesture # <<>>
    /\ PendingMoves # {}

\* C9: after the connected snapshot the queue, the health and the playback
\* info all equal the values the snapshot carries.
C9_SnapshotSetsEveryCapability ==
    last.msg.kind = "connected" =>
        /\ queue = OrEmpty(last.msg.QUEUE)
        /\ health = last.msg.HEALTH[1]
        /\ audioStateInfo = last.msg.AUDIO_STATE_INFO

\* C10 as stated: once the fetch has settled, with a response or with a
\* failure, the timer has no effect and onTimeout is not invoked.
C10_SettledStopsTimer ==
    [][\A i \in Slots :
          (i \in DOMAIN cmds /\ cmds[i].fetch # "inflight" /\ TimerFire(i))
          => /\ last'.branch # "timeout"
             /\ UNCHANGED clientVars]_vars

\* C10 amended: once the fetch has resolved with a response, the timer has
\* no effect (no onTimeout, no change, no command); after a fetch that
\* failed the call still waits, and the timer invokes onTimeout.
C10_ResolvedStopsTimer ==
    [][\A i \in Slots :
          (i \in DOMAIN cmds /\ cmds[i].fetch # "inflight" /\ TimerFire(i))
          => IF cmds[i].fetch = "ok"
             THEN /\ last' = Handled(NoMessage, <<>>, "expired")
                  /\ UNCHANGED clientVars
                  /\ cmds' = RemoveAt(cmds, i)
             ELSE last'.branch = "timeout"]_vars

\* The timer of an answered remove fired while a later remove holds the
\* lock.
C10_Witness ==
    /\ last.branch = "expired"
    /\ ~deleteAllowed
    /\ PendingRemoves # {}

\* C11: when the timer fires and no response was delivered, onTimeout is
\* invoked and the caller resumes in that step (onRemove unlocks) while the
\* fetch may still be in flight; onTimeout is invoked only by the timer
\* of a call whose timer has not fired before, hence at most once per call.
C11_TimeoutOnceAtDeadline ==
    /\ [][\A i \in Slots :
             (i \in DOMAIN cmds /\ cmds[i].fetch # "ok" /\ TimerFire(i))
             => /\ last'.branch = "timeout"
                /\ cmds[i].kind = "remove" => deleteAllowed'
                /\ cmds[i].fetch = "inflight" =>
                      /\ cmds'[i].fetch = "inflight"
                      /\ cmds'[i].promise = "timedout"]_vars
    /\ [][last'.branch = "timeout" =>
             \E i \in DOMAIN cmds :
                 /\ ~cmds[i].timer
                 /\ cmds[i].promise = "pending"
                 /\ TimerFire(i)]_vars

\* Two removes in a row timed out, both fetches are still in flight.
C11_Witness ==
    /\ last.branch = "timeout"
    /\ Len(cmds) = 2
    /\ \A i \in DOMAIN cmds :
          /\ cmds[i].kind = "remove"
          /\ cmds[i].promise = "timedout"
          /\ cmds[i].fetch = "inflight"

\* C12: a fetch that is rejected resumes nobody and changes nothing: the
\* remove lock stays held while the timer of the failed remove has not
\* fired, and the timer releases it through onTimeout.
C12_FailureOnlyByTimeout ==
    /\ [](\A i \in DOMAIN cmds :
            (cmds[i].kind = "remove" /\ cmds[i].fetch = "failed" /\ ~cmds[i].timer)
            => ~deleteAllowed /\ cmds[i].promise = "pending")
    /\ [][\A i \in Slots :
             (i \in PendingRemoves /\ FetchReject(i))
             => /\ UNCHANGED clientVars
                /\ last' = Handled(NoMessage, <<>>, "run")]_vars
    /\ [][\A i \in Slots :
             (/\ i \in DOMAIN cmds
              /\ cmds[i].kind = "remove"
              /\ cmds[i].fetch = "failed"
              /\ TimerFire(i))
             => ~deleteAllowed /\ deleteAllowed' /\ last'.branch = "timeout"]_vars

\* The fetch of a remove failed, its timer has not fired yet, and a click
\* on remove was swallowed by the lock.
C12_Witness ==
    /\ last.branch = "locked"
    /\ \E i \in PendingRemoves : cmds[i].fetch = "failed" /\ ~cmds[i].timer

EmitsProgress ==
    \E k \in DOMAIN last.sent : last.sent[k].tag = "SET_AUDIO_PROGRESS"

\* C13: after the release that ends a scrub (SET_AUDIO_PROGRESS was sent)
\* holdingBar becomes false again unless a new scrub begins, also when the
\* command is dropped or exceeds its 500 ms; and while holdingBar is false
\* the bar shows the progress the server reported last.
C13_OverrideEnds ==
    /\ (EmitsProgress /\ last.branch = "run" /\ holdingBar)
          ~> (~holdingBar \/ setHoldingBarWithDelay # "none")
    /\ [](~holdingBar => Displayed = ServerProgress(audioStateInfo))

\* C14: the progress of every SET_AUDIO_PROGRESS command lies in [0, 1],
\* that is in 0..ProgressScale on the scale, wherever the pointer was.
C14_ProgressInRange ==
    \A k \in DOMAIN last.sent :
        last.sent[k].tag = "SET_AUDIO_PROGRESS"
        => last.sent[k].progress \in 0..ProgressScale

\* The scrub was released with the pointer right of the bar, while the
\* server reports progress 0.
C14_Witness ==
    /\ last.sent = <<ProgressCmd(ProgressScale)>>
    /\ last.branch = "run"
    /\ pointer = BarWidth + 1
    /\ ServerProgress(audioStateInfo) = 0

\* The keys of a message the server wrote, and the payload under a key.
KeysOf(m) == {m.members[j].k : j \in DOMAIN m.members}

PayloadOf(m, key) ==
    m.members[MaxOf({j \in DOMAIN m.members : m.members[j].k = key})].v

CallsOf(list, i) == {j \in DOMAIN list : list[j].handler = i}

\* C15: handleResponse calls, once each and with the payload of its key,
\* exactly the registered handlers whose key is in the message; a key no
\* handler is registered for raises no error.
C15_DispatchToEveryMatch ==
    [][received'.form = "object" /\ last'.branch # "click" =>
          /\ ~calls'.thrown
          /\ \A i \in DOMAIN handlers :
                Cardinality(CallsOf(calls'.list, i)) =
                    IF handlers[i] \in KeysOf(received') THEN 1 ELSE 0
          /\ \A j \in DOMAIN calls'.list :
                /\ calls'.list[j].handler \in DOMAIN handlers
                /\ calls'.list[j].key = handlers[calls'.list[j].handler]
                /\ calls'.list[j].data =
                      <<PayloadOf(received', calls'.list[j].key)>>]_vars

\* One message with three keys: none registered for the first, one handler
\* for the second, two handlers (Queue was mounted twice) for the third.
C15_Witness ==
    /\ received.form = "object"
    /\ Len(received.members) = 3
    /\ received.members[1].k = "PONG"
    /\ Len(calls.list) = 3
    /\ calls.list[2].key = calls.list[3].key
    /\ calls.list[2].handler # calls.list[3].handler

\* C16: a message that is no JSON is caught and dropped: no error leaves
\* the message callback and the view (sources, active source, queue) is
\* unchanged.
C16_MalformedDropped ==
    [][received'.form = "malformed" =>
          /\ last'.branch # "uncaught"
          /\ UNCHANGED <<sources, activeSource, sourceQueue>>]_vars

\* C17: msgString writes a 1-tuple as the quoted tag and a 2-tuple as an
\* object with the tag as its one key, and handleResponse, given that
\* text, calls exactly the handlers registered under the tag, with the
\* params (with nothing for a bare tag).
C17_CodecRoundTrip ==
    last.branch = "loopback" =>
        LET msg == last.sent[1]
        IN  /\ IF msg.params = <<>>
               THEN wire = <<Quote, Name(msg.tag), Quote>>
               ELSE SelectSeq(wire, LAMBDA t : t # Space) =
                       <<LBrace, Quote, Name(msg.tag), Quote, Colon,
                         Lit(msg.params[1]), RBrace>>
            /\ ~calls.thrown
            /\ \A i \in DOMAIN handlers :
                  Cardinality(CallsOf(calls.list, i)) =
                      IF handlers[i] = msg.tag THEN 1 ELSE 0
            /\ \A j \in DOMAIN calls.list :
                  /\ calls.list[j].key = msg.tag
                  /\ calls.list[j].data = msg.params

\* The bare tag FINISHED_DOWNLOADING_AUDIO came back to both handlers
\* registered under it.
C17_Witness ==
    /\ last.branch = "loopback"
    /\ last.sent = <<Cmd("FINISHED_DOWNLOADING_AUDIO", <<>>)>>
    /\ wire = <<Quote, Name("FINISHED_DOWNLOADING_AUDIO"), Quote>>
    /\ Len(calls.list) = 2
    /\ calls.list[1].data = <<>>

EmitsSetActiveSource ==
    \E k \in DOMAIN last.sent : last.sent[k].tag = "SET_ACTIVE_SOURCE"

AssignsSources(m) == m.form = "object" /\ KeysOf(m) \cap SourcesKeys # {}

\* C18: a message that sets the sources list to exactly one source makes
\* the client emit SET_ACTIVE_SOURCE for it, once; with another number of
\* sources, and in every step that is no click and sets no list of one,
\* no SET_ACTIVE_SOURCE is emitted; SET_ACTIVE_SOURCE_RESPONSE sets the
\* active source.
C18_OnlySourceActivated ==
    /\ [][(last'.branch = "run" /\ AssignsSources(received')) =>
             IF Len(sources') = 1
             THEN Cardinality({k \in DOMAIN last'.sent :
                                 last'.sent[k] = SetActiveSourceCmd(sources'[1])}) = 1
                  /\ Cardinality({k \in DOMAIN last'.sent :
                                    last'.sent[k].tag = "SET_ACTIVE_SOURCE"}) = 1
             ELSE ~EmitsSetActiveSource']_vars
    /\ [][(EmitsSetActiveSource' /\ last'.branch # "click") =>
             AssignsSources(received') /\ Len(sources') = 1]_vars
    /\ [][(/\ last'.branch = "run"
           /\ received'.form = "object"
           /\ "SET_ACTIVE_SOURCE_RESPONSE" \in KeysOf(received')) =>
             activeSource' =
                 PayloadOf(received', "SET_ACTIVE_SOURCE_RESPONSE").name]_vars

\* The connected snapshot named one source: the client asked for it with
\* no click, and no source is active yet.
C18_Witness ==
    /\ last.branch = "run"
    /\ last.sent = <<SetActiveSourceCmd("office")>>
    /\ sources = <<"office">>
    /\ activeSource = NoSource
    /\ received.members[1].k = "SESSION_CONNECTED_RESPONSE"

\* C19: the client navigates to the page of a node only by a click on a
\* node of the list whose health is good or mild, never to a node whose
\* health is poor.
C19_PoorNeverNavigated ==
    [][(location' # location /\ location' # Home) =>
          \E i \in DOMAIN nodeInfo :
              /\ location' = Route(nodeInfo[i].source_name)
              /\ nodeInfo[i].health.str = "good"
                 \/ nodeInfo[i].health.keys = {"mild"}]_vars

\* The client has navigated to a mild node of a list that also holds a
\* poor node.
C19_Witness ==
    /\ last.branch = "navigate"
    /\ \E i \in DOMAIN nodeInfo :
           /\ location = Route(nodeInfo[i].source_name)
           /\ nodeInfo[i].health.keys = {"mild"}
    /\ \E i \in DOMAIN nodeInfo : nodeInfo[i].health.keys = {"poor"}

\* C20: once the socket is lost the view is in an unknown state: it shows
\* no queue and no playback state any more.
C20_SocketLossSurfaced ==
    socket = "closed" => queue = <<>> /\ audioStateInfo = <<>>

\* C21: the remove lock changes only in two ways: an accepted remove takes
\* it, and the response or the timeout of the one pending remove, the
\* latest remove issued, releases it. Stream messages, drag events,
\* play-selected, moves and their responses and timeouts leave it alone.
C21_LockOnlyByItsRemove ==
    [][deleteAllowed' # deleteAllowed =>
          IF deleteAllowed
          THEN last'.branch = "run" /\ EmitsRemove'
          ELSE \E i \in PendingRemoves :
                  /\ PendingRemoves = {i}
                  /\ \A j \in DOMAIN cmds : cmds[j].kind = "remove" => j <= i
                  /\ FetchResolve(i) \/ TimerFire(i)]_vars

\* The timeout of a remove released the lock while a move is pending in
\* the middle of the next drag.
C21_Witness ==
    /\ last.branch = "timeout"
    /\ deleteAllowed
    /\ PendingMoves # {}
    /\ gesture # <<>>
    /\ \E i \in DOMAIN cmds :
          cmds[i].kind = "remove" /\ cmds[i].promise = "timedout"

\* C22: the queue changes only in a step that handles a stream message
\* which carries QUEUE, and then to its payload; a step that sends a
\* command, or in which a response or a timeout arrives, leaves it alone.
C22_QueueOnlyByStream ==
    [][queue' # queue =>
          /\ QueueAssigned(last'.msg)
          /\ queue' = OrEmpty(last'.msg.QUEUE)]_vars

\* The response of a remove arrived and the queue still has every item.
C22_Witness ==
    /\ last.msg = NoMessage
    /\ last.branch = "run"
    /\ Len(queue) = MaxQueue
    /\ deleteAllowed
    /\ \E i \in DOMAIN cmds :
          cmds[i].kind = "remove" /\ cmds[i].promise = "resolved"

\* C23: the response, the failure and the timeout of a move command send
\* nothing, start no call again and leave the rendered order alone; the
\* rendered order changes only by a consider of a drag or by a stream
\* message that carries QUEUE.
C23_MoveNeitherRetriedNorRolledBack ==
    /\ [][\A i \in Slots :
             (/\ i \in DOMAIN cmds
              /\ cmds[i].kind = "move"
              /\ FetchResolve(i) \/ FetchReject(i) \/ TimerFire(i))
             => /\ dndQueue' = dndQueue
                /\ last'.sent = <<>>
                /\ \/ cmds' = RemoveAt(cmds, i)
                   \/ /\ Len(cmds') = Len(cmds)
                      /\ \A j \in DOMAIN cmds : j # i => cmds'[j] = cmds[j]
                      /\ cmds'[i].timer \/ cmds'[i].fetch # "inflight"]_vars
    /\ [][dndQueue' # dndQueue =>
             \/ QueueAssigned(last'.msg)
             \/ \E a, b \in DOMAIN dndQueue : HandleDndConsider(a, b)]_vars

\* A move timed out after the drag ended: the rendered order is still the
\* one the drag left, and differs from the queue.
C23_Witness ==
    /\ last.branch = "timeout"
    /\ gesture = <<>>
    /\ dndQueue # ToDnd(queue)
    /\ \E i \in DOMAIN cmds :
          cmds[i].kind = "move" /\ cmds[i].promise = "timedout"

\* C24: right after a stream message that carries QUEUE was handled, also
\* in the middle of a drag, the rendered list has the items of the payload
\* in its order, with the ids 0..n-1 in order.
C24_SnapshotRecomputesList ==
    QueueAssigned(last.msg) =>
        /\ Len(dndQueue) = Len(OrEmpty(last.msg.QUEUE))
        /\ \A k \in DOMAIN dndQueue :
              /\ dndQueue[k].data = OrEmpty(last.msg.QUEUE)[k]
              /\ dndQueue[k].id = k - 1

\* The snapshot [B, C] arrived in the middle of a drag that began at the
\* last position of a longer list.
C24_Witness ==
    /\ last.msg.kind = "connected"
    /\ last.msg.QUEUE = << <<"B", "C">> >>
    /\ gesture # <<>>
    /\ oldPos = MaxQueue - 1
    /\ Len(dndQueue) < MaxQueue

\* C25: a stream message that carries QUEUE and no AUDIO_STATE_INFO leaves
\* the playback info (and the progress derived from it) unchanged, and one
\* that carries AUDIO_STATE_INFO and no QUEUE leaves the queue unchanged.
C25_QueueAndPlaybackIndependent ==
    /\ [][(QueueAssigned(last'.msg) /\ last'.msg.AUDIO_STATE_INFO = <<>>) =>
             UNCHANGED <<audioStateInfo, localProgress>>]_vars
    /\ [][(last'.msg.AUDIO_STATE_INFO # <<>> /\ ~QueueAssigned(last'.msg)) =>
             UNCHANGED <<queue, dndQueue>>]_vars

\* A queue of one item replaced a longer one while the playback info still
\* names the last position of the old queue.
C25_Witness ==
    /\ last.msg.keys = {"QUEUE"}
    /\ Len(queue) = 1
    /\ audioStateInfo # <<>>
    /\ audioStateInfo[1].currentHeadIndex = MaxQueue - 1

\* C26: in every state the active item shown is the item of the current
\* queue at the head index when there is playback info and the index is a
\* position of the queue, and none otherwise; the item the list highlights
\* is that item too.
C26_ActiveItemIsHeadOrNone ==
    /\ IF /\ audioStateInfo # <<>>
          /\ audioStateInfo[1].currentHeadIndex \in 0..(Len(queue) - 1)
       THEN activeAudio = <<queue[audioStateInfo[1].currentHeadIndex + 1]>>
       ELSE activeAudio = <<>>
    /\ \A k \in DOMAIN dndQueue :
          (audioStateInfo # <<>>
           /\ dndQueue[k].id = audioStateInfo[1].currentHeadIndex)
          => activeAudio = <<dndQueue[k].data>>

\* The queue shrank under the head index: no item is active, though the
\* queue is not empty.
C26_Witness ==
    /\ last.msg.keys = {"QUEUE"}
    /\ Len(queue) = MaxQueue - 1
    /\ audioStateInfo # <<>>
    /\ audioStateInfo[1].currentHeadIndex = MaxQueue - 1
    /\ activeAudio = <<>>

\* C27: while holdingBar is true a progress update of the server changes
\* neither localProgress nor the progress the bar shows, and the bar shows
\* localProgress.
C27_HoldOverridesServer ==
    /\ [][(holdingBar /\ last'.msg # NoMessage) =>
             /\ localProgress' = localProgress
             /\ Displayed' = Displayed]_vars
    /\ [](holdingBar => Displayed = localProgress)

\* The server reported the end of the track while the user holds the bar
\* at its start.
C27_Witness ==
    /\ holdingBar
    /\ last.msg.keys = {"AUDIO_STATE_INFO"}
    /\ ServerProgress(audioStateInfo) = ProgressScale
    /\ localProgress = 0
    /\ Displayed = 0

\* C28: a click on a source sends SET_ACTIVE_SOURCE for it and changes
\* nothing of the view; the active source changes only in a step that
\* handles a message with SET_ACTIVE_SOURCE_RESPONSE, and then to the name
\* in it.
C28_ActiveSourceRoundTripped ==
    /\ [][last'.branch = "click" =>
             /\ UNCHANGED <<activeSource, sources, sourceQueue>>
             /\ \E i \in DOMAIN sources :
                   last'.sent = <<SetActiveSourceCmd(sources[i])>>]_vars
    /\ [][activeSource' # activeSource =>
             /\ last'.branch = "run"
             /\ received'.form = "object"
             /\ "SET_ACTIVE_SOURCE_RESPONSE" \in KeysOf(received')
             /\ activeSource' =
                   PayloadOf(received', "SET_ACTIVE_SOURCE_RESPONSE").name]_vars

\* The user clicked the other source and no response has arrived: the
\* first source is still the active one.
C28_Witness ==
    /\ last.branch = "click"
    /\ activeSource = "office"
    /\ last.sent = <<SetActiveSourceCmd("living_room")>>

\* C29: a message is dispatched against the handler table of the moment
\* it arrives: every handler in the table then, also one pushed after the
\* socket was opened, is called if its key is in the message; a handler
\* pushed in the step that handles the message, or later, is not called
\* for it, and no step but the arrival of a message calls a handler.
C29_DispatchAgainstCurrentTable ==
    /\ [][(last'.branch = "run" /\ received'.form = "object") =>
             /\ \A i \in DOMAIN handlers :
                   handlers[i] \in KeysOf(received')
                   => CallsOf(calls'.list, i) # {}
             /\ \A j \in DOMAIN calls'.list :
                   calls'.list[j].handler \in DOMAIN handlers]_vars
    /\ [][last'.branch = "click" => calls' = calls /\ handlers' = handlers]_vars

\* One message named a source and carried queue info: the handler Queue
\* pushed at its first mount was called, the handler pushed by the mount
\* this message caused was not.
C29_Witness ==
    /\ Mounts(handlers) = 2
    /\ received.form = "object"
    /\ "SEND_CLIENT_QUEUE_INFO_RESPONSE" \in KeysOf(received)
    /\ KeysOf(received) \cap SourcesKeys # {}
    /\ {calls.list[j].handler :
           j \in {k \in DOMAIN calls.list :
                     calls.list[k].key = "SEND_CLIENT_QUEUE_INFO_RESPONSE"}}
          = {Len(PageHandlers) + Len(SourcesHandlers) + 1}

\* C30: a FINISHED_DOWNLOADING_AUDIO that carries an error ends the
\* downloading state and leaves the queue alone (also when it carries a
\* queue beside the error); when no download is running a click on a
\* search result is not refused for a download, and the queue commands send
\* at any time.
C30_DownloadErrorUnblocks ==
    /\ [][(/\ last'.branch = "run"
           /\ received'.form = "object"
           /\ KeysOf(received') = {SearchHandlers[2]}
           /\ PayloadOf(received', SearchHandlers[2]).kind = "error") =>
             /\ UNCHANGED <<sourceQueue, queueProp>>
             /\ (\E i \in DOMAIN handlers : handlers[i] = SearchHandlers[1])
                => ~downloadingAudio']_vars
    /\ [][(~downloadingAudio /\ OnSearchResultClick("song")) =>
             last'.branch # "blocked"]_vars
    /\ [][(\E index \in Positions : QueueRemove(index)) =>
             Len(last'.sent) = 1]_vars

\* A download that had started ended with an error that carried an empty
\* queue: the queue still has its song and the search is free again.
C30_Witness ==
    /\ last.branch = "run"
    /\ received.form = "object"
    /\ KeysOf(received) = {SearchHandlers[2]}
    /\ PayloadOf(received, SearchHandlers[2]) = ErrorPayload(<<>>)
    /\ Len(calls.list) = 2
    /\ ~downloadingAudio
    /\ queueProp = <<"song">>
    /\ activeSource # NoSource

\* C31: the positions of every MOVE_QUEUE_ITEM a drag gesture emits lie
\* within the bounds of the queue as it is when the command is emitted,
\* also when a QUEUE message replaced the queue between the first frame of
\* the gesture and its finalize.
C31_MovePositionsCurrent ==
    [][(gesture # <<>> /\ HandleDndFinalize /\ EmitsMove') =>
          \A k \in DOMAIN last'.sent :
              /\ last'.sent[k].oldPos \in 0..(Len(queue') - 1)
              /\ last'.sent[k].newPos \in 0..(Len(queue') - 1)]_vars

\* C32: no REMOVE_QUEUE_ITEM is emitted while the response of the remove
\* before it has arrived and no QUEUE message has been handled since that
\* remove was sent: a remove is never computed against a queue that has
\* not shifted yet.
C32_RemoveAgainstShiftedQueue ==
    [][(\E index \in Positions : OnRemove(index)) /\ EmitsRemove' =>
          view # "answered"]_vars

\* C33: at any time at most one REMOVE_QUEUE_ITEM request is on the
\* network (its fetch was sent and has neither been answered nor failed),
\* also after a remove timed out and the next one was issued.
C33_OneRemoveOnTheNetwork ==
    Cardinality({i \in DOMAIN cmds :
                    cmds[i].kind = "remove" /\ cmds[i].fetch = "inflight"}) <= 1

\* The release window: the mouseup of a press sent its command and the
\* timer that ends the hold has not fired yet.
InReleaseWindow ==
    \/ releaseTimers > 0
    \/ \E i \in DOMAIN cmds : cmds[i].kind = "progress" /\ cmds[i].promise = "pending"

\* C34: holdingBar is true only while a press that began on the bar is in
\* progress, or in the release window after its mouseup.
C34_HoldOnlyWhilePressed ==
    holdingBar => pressed \/ InReleaseWindow

\* C35: a mouseup that ends a press begun on the bar sends exactly one
\* SET_AUDIO_PROGRESS, with the progress of the last pointer position read
\* during the press; any other mouseup sends nothing.
C35_OneCommandPerPress ==
    [][(\E inside \in BOOLEAN : OnBarDragEnd(inside)) =>
          IF pressed
          THEN last'.sent = <<ProgressCmd(Progress(pointer))>>
          ELSE last'.sent = <<>>]_vars

\* C36: the handler table holds the handlers of Queue at most once, and a
\* message calls the SEND_CLIENT_QUEUE_INFO_RESPONSE handler of Queue at
\* most once (the handler of the live component, none of a destroyed one),
\* also after sources became empty and non-empty again.
C36_OneRegistrationPerHandler ==
    /\ Cardinality({i \in DOMAIN handlers : handlers[i] = QueueHandlers[1]}) <= 1
    /\ Cardinality({j \in DOMAIN calls.list :
                       calls.list[j].key = QueueHandlers[1]}) <= 1

\* The handlers of YouTubeSearch are on the table the page dispatches from.
SearchRegistered == \E i \in DOMAIN handlers : handlers[i] = SearchHandlers[1]

ToggleOf(state) == IF state = "paused" THEN "UN_PAUSE_QUEUE" ELSE "PAUSE_QUEUE"

\* The socket of the session page has just delivered the queue info to the
\* mounted Queue.
InfoJustDelivered ==
    /\ last.msg = NoMessage
    /\ last.branch = "run"
    /\ received.form = "object"
    /\ "SEND_CLIENT_QUEUE_INFO_RESPONSE" \in KeysOf(received)
    /\ sources # <<>>

\* C38: a click on play/pause changes no pause state and sends
\* UN_PAUSE_QUEUE when the playback state the server reported last is
\* paused, PAUSE_QUEUE otherwise (checked for a click right after the
\* message that reported it: a snapshot or an AUDIO_STATE_INFO update of
\* the node page, a queue info of the session page); the pause state
\* changes only when a message is handled, and a second click with no
\* message between sends the same command again.
C38_PauseFollowsServer ==
    /\ [][(OnPlayPause \/ TogglePause) => UNCHANGED <<audioStateInfo, paused>>]_vars
    /\ [][(last.msg.AUDIO_STATE_INFO # <<>> /\ OnPlayPause) =>
             last'.sent =
                <<PlayPauseCmd(ToggleOf(last.msg.AUDIO_STATE_INFO[1].playbackState))>>]_vars
    /\ [][(InfoJustDelivered /\ TogglePause) =>
             last'.sent =
                <<Cmd(ToggleOf(PayloadOf(received,
                                         "SEND_CLIENT_QUEUE_INFO_RESPONSE").name),
                      <<>>)>>]_vars
    /\ [][audioStateInfo' # audioStateInfo => last'.msg.kind = "update"]_vars
    /\ [][(sources # <<>> /\ paused' # paused) =>
             "SEND_CLIENT_QUEUE_INFO_RESPONSE" \in KeysOf(received')]_vars
    /\ [][(last.branch = "playpause" /\ OnPlayPause) => last'.sent = last.sent]_vars
    /\ [][(last.branch = "togglepause" /\ TogglePause) => last'.sent = last.sent]_vars

====
